---------------------------- MODULE Spec2Model ----------------------------
(***************************************************************************)
(* Model of the live screen-sharing session controller of src/App.tsx:     *)
(* the session state, the refs, the start/stop handlers, the callbacks of  *)
(* the live channel and the audio playback / transcript handling of        *)
(* onmessage.                                                              *)
(*                                                                         *)
(* Every call of startLiveSession is numbered 1, 2, ...; the microphone    *)
(* stream, the screen stream, the channel (ai.live.connect) and the frame  *)
(* timer that call k creates carry the number k.                           *)
(***************************************************************************)
EXTENDS Integers, Sequences, FiniteSets, TLC

\* ------------------------------------------------------------------ bounds
MaxStarts == 2      \* calls of startLiveSession in one run
MaxAudio == 1       \* messages delivered in one run of Spec
MaxMsgs == 3        \* messages delivered in one run of SpecPlayback and SpecTranscript
MaxTurns == 7       \* messages delivered in one run of SpecLog
MaxClock == 3       \* how far the playback clock runs
MaxDuration == 2    \* the longest decoded buffer
MaxChunks == 2      \* audio blocks and video frames captured in one run
MaxBuffers == 2     \* messages delivered in one run of SpecSchedule

\* --------------------------------------------------------------- constants
Null == 0           \* a ref's null

ErrConnection == "Connection lost or failed."
ErrFallback == "Permission denied or browser incompatible."
ErrBlocked == "Screen sharing is blocked by your browser's permissions policy."
NoError == "null"

Calls == 1..MaxStarts
Durations == 1..MaxDuration

Max(a, b) == IF a >= b THEN a ELSE b

\* a LiveServerMessage: the fields of serverContent that onmessage reads
\* (input, output: the text of inputTranscription / outputTranscription, "" if absent)
NoMsg == [audio |-> FALSE, interrupted |-> FALSE, input |-> "", output |-> "",
          turnComplete |-> FALSE]

\* getUserMedia rejections: err.message may be empty
MicErrors == {[name |-> "NotAllowedError", message |-> "Permission denied"],
              [name |-> "NotFoundError", message |-> ""]}
\* getDisplayMedia rejections
DisplayErrors == {[name |-> "NotAllowedError", message |-> "Permission denied"],
                  [name |-> "AbortError", message |-> ""]}

VARIABLES
  session,            \* useState<SessionState>
  inputAudioCtxRef,   \* number of AudioContexts created for capture (0: ref is null)
  outputAudioCtxRef,  \* number of AudioContexts created for playback
  micStreamRef,       \* Null or the number of the stream held
  screenStreamRef,
  sessionPromiseRef,  \* Null or the number of the channel held
  frameIntervalRef,   \* Null or the number of the timer held
  audioSourcesRef,    \* set of playback handles
  pc,                 \* where each call of startLiveSession stands
  micLive,            \* microphone streams whose track is live
  screenLive,         \* screen streams whose video track is live
  chan,               \* the channel of each call: none, opening, open, closed
  timers,             \* frame timers that are running (window.setInterval)
  nStarts,            \* calls of startLiveSession so far
  clock,              \* outputAudioCtxRef.current.currentTime
  nextStartTimeRef,
  acc,                \* currentInputTranscription, currentOutputTranscription of each call
  transcriptions,     \* useState<TranscriptionItem[]>
  updQ,               \* updaters handed to setTranscriptions and not yet run
  batched,            \* whether React runs updaters at the next render (or at once)
  decoding,           \* onmessage handlers suspended in await decodeAudioData
  arrivals,           \* the messages delivered so far, in order of arrival, each
                      \* with the playback clock at its arrival; a message's
                      \* place in it numbers the message and its handle
  started,            \* the calls of source.start, in order
  stoppedSrc,         \* handles on which stop() was called
  endedSrc,           \* handles whose buffer has played to its end
  preCursor,          \* the cursor an interruption has reset and no buffer has
                      \* been started since (-1: no such interruption)
  accFrom,            \* for each accumulator, the messages whose deltas it holds
  nCommitted,         \* items appended to transcriptions so far
  processors,         \* calls whose scriptProcessor is connected (lines 126-138)
  videoSrc,           \* srcObject of the mounted <video> (Null: none, or no element)
  encoding,           \* frames between canvas.toBlob and reader.onloadend
  queued,             \* chunks waiting in a then() of a channel not yet open
  sent,               \* chunks handed to an open channel, in order
  nChunks,            \* audio blocks and frames captured so far
  last                \* the handler that ran last, and what it did

vars == <<session, inputAudioCtxRef, outputAudioCtxRef, micStreamRef,
          screenStreamRef, sessionPromiseRef, frameIntervalRef, audioSourcesRef,
          pc, micLive, screenLive, chan, timers, nStarts, clock, nextStartTimeRef,
          acc, transcriptions, updQ, batched, decoding, arrivals, started,
          stoppedSrc, endedSrc, preCursor, accFrom, nCommitted, processors,
          videoSrc, encoding, queued, sent, nChunks, last>>

lifecycleVars == <<session, inputAudioCtxRef, outputAudioCtxRef, micStreamRef,
                   screenStreamRef, sessionPromiseRef, frameIntervalRef, pc, micLive,
                   screenLive, chan, timers, nStarts, processors, videoSrc, encoding,
                   queued, sent, nChunks>>
\* what the handlers of the session's lifecycle leave alone
messageVars == <<clock, nextStartTimeRef, acc, transcriptions, updQ, batched,
                 decoding, arrivals, started, endedSrc, preCursor, accFrom,
                 nCommitted>>

\* ------------------------------------------------------------------- state
InitialSession ==
  [isActive |-> FALSE, isMuted |-> FALSE, isScreenSharing |-> FALSE,
   status |-> "idle", error |-> NoError]

EmptyAcc == [input |-> "", output |-> ""]
EmptyFrom == [input |-> <<>>, output |-> <<>>]

nMsg == Len(arrivals)

Init ==
  /\ session = InitialSession
  /\ inputAudioCtxRef = 0
  /\ outputAudioCtxRef = 0
  /\ micStreamRef = Null
  /\ screenStreamRef = Null
  /\ sessionPromiseRef = Null
  /\ frameIntervalRef = Null
  /\ audioSourcesRef = {}
  /\ pc = [k \in Calls |-> "unused"]
  /\ micLive = {}
  /\ screenLive = {}
  /\ chan = [k \in Calls |-> "none"]
  /\ timers = {}
  /\ nStarts = 0
  /\ clock = 0
  /\ nextStartTimeRef = 0
  /\ acc = [k \in Calls |-> EmptyAcc]
  /\ transcriptions = <<>>
  /\ updQ = <<>>
  /\ batched \in BOOLEAN
  /\ decoding = {}
  /\ arrivals = <<>>
  /\ started = <<>>
  /\ stoppedSrc = {}
  /\ endedSrc = {}
  /\ preCursor = -1
  /\ accFrom = [k \in Calls |-> EmptyFrom]
  /\ nCommitted = 0
  /\ processors = {}
  /\ videoSrc = Null
  /\ encoding = {}
  /\ queued = <<>>
  /\ sent = <<>>
  /\ nChunks = 0
  /\ last = [op |-> "init", id |-> 0, ch |-> 0, preStatus |-> "idle",
             released |-> FALSE, changed |-> FALSE,
             interrupted |-> FALSE, turnComplete |-> FALSE]

\* what a handler leaves in `last`
Did(op, id, released, newSession) ==
  [op |-> op, id |-> id, ch |-> id, preStatus |-> session.status,
   released |-> released, changed |-> newSession # session,
   interrupted |-> FALSE, turnComplete |-> FALSE]

\* what the handler of message id of channel k leaves in `last`
DidMessage(op, id, k, m) ==
  [op |-> op, id |-> id, ch |-> k, preStatus |-> session.status,
   released |-> FALSE, changed |-> FALSE,
   interrupted |-> m.interrupted, turnComplete |-> m.turnComplete]

Ids(sources) == {h.id : h \in sources}

\* ---------------------------------------------------------------- teardown
\* stopAllStreams performs a track.stop(), a clearInterval or a source.stop()
Releases ==
  \/ screenStreamRef # Null
  \/ micStreamRef # Null
  \/ frameIntervalRef # Null
  \/ audioSourcesRef # {}

\* stopAllStreams; `live` is the set of live screen tracks it starts from
stopAllStreams(live) ==
  /\ screenLive' = live \ {screenStreamRef}
  /\ screenStreamRef' = Null
  /\ micLive' = micLive \ {micStreamRef}
  /\ micStreamRef' = Null
  /\ timers' = timers \ {frameIntervalRef}
  /\ frameIntervalRef' = Null
  /\ stoppedSrc' = stoppedSrc \cup Ids(audioSourcesRef)
  /\ audioSourcesRef' = {}

StoppedSession(s) ==
  [s EXCEPT !.isActive = FALSE, !.isScreenSharing = FALSE, !.status = "idle"]

\* handleStopSession, called by handler `op` of object `id`; s is the session
\* state the handler has set before the call
handleStopSession(op, id, s, live) ==
  /\ stopAllStreams(live)
  /\ session' = StoppedSession(s)
  /\ videoSrc' = Null
  /\ last' = Did(op, id, Releases, StoppedSession(s))

\* --------------------------------------------------------- startLiveSession
\* The button that starts a session is shown while the session is not active
\* and is disabled while it is connecting.
StartEnabled == ~session.isActive /\ session.status # "connecting"

ConnectingSession(s) == [s EXCEPT !.status = "connecting", !.error = NoError]

\* a context is created by every start request
EnsureContextAlwaysNew(created) == created + 1

\* lines 70-75: if (!ref.current) ref.current = new AudioContext(...), on the
\* number of contexts created for the ref so far
EnsureContext(created) == IF created = 0 THEN 1 ELSE created

\* lines 64-78: up to the await of getUserMedia
StartRequest ==
  /\ StartEnabled
  /\ nStarts < MaxStarts
  /\ nStarts' = nStarts + 1
  /\ session' = ConnectingSession(session)
  /\ inputAudioCtxRef' = EnsureContext(inputAudioCtxRef)
  /\ outputAudioCtxRef' = EnsureContext(outputAudioCtxRef)
  /\ pc' = [pc EXCEPT ![nStarts + 1] = "awaitMic"]
  /\ last' = Did("start", nStarts + 1, FALSE, ConnectingSession(session))
  /\ UNCHANGED <<micStreamRef, screenStreamRef, sessionPromiseRef, frameIntervalRef,
                 audioSourcesRef, stoppedSrc, micLive, screenLive, chan, timers>>
  /\ UNCHANGED <<processors, videoSrc, encoding, queued, sent, nChunks>>
  /\ UNCHANGED messageVars

\* lines 78-84: getUserMedia resolves, up to the await of getDisplayMedia
MicGranted(k) ==
  /\ pc[k] = "awaitMic"
  /\ micLive' = micLive \cup {k}
  /\ micStreamRef' = k
  /\ pc' = [pc EXCEPT ![k] = "awaitScreen"]
  /\ last' = Did("micGranted", k, FALSE, session)
  /\ UNCHANGED <<session, inputAudioCtxRef, outputAudioCtxRef, screenStreamRef,
                 sessionPromiseRef, frameIntervalRef, audioSourcesRef, stoppedSrc,
                 screenLive, chan, timers, nStarts>>
  /\ UNCHANGED <<processors, videoSrc, encoding, queued, sent, nChunks>>
  /\ UNCHANGED messageVars

FailedSession(s, message) ==
  [s EXCEPT !.status = "error",
            !.error = IF message # "" THEN message ELSE ErrFallback]

\* lines 227-231: the catch block
StartFailed(k, message) ==
  /\ session' = FailedSession(session, message)
  /\ stopAllStreams(screenLive)
  /\ pc' = [pc EXCEPT ![k] = "failed"]
  /\ last' = Did("startFailed", k, Releases, FailedSession(session, message))
  /\ UNCHANGED <<inputAudioCtxRef, outputAudioCtxRef, sessionPromiseRef, chan, nStarts>>
  /\ UNCHANGED <<processors, videoSrc, encoding, queued, sent, nChunks>>
  /\ UNCHANGED messageVars

\* line 78 rejects
MicDenied(k) ==
  /\ pc[k] = "awaitMic"
  /\ \E e \in MicErrors : StartFailed(k, e.message)

\* lines 88-93: what the inner catch throws
DisplayFailure(e) ==
  IF e.name = "NotAllowedError" THEN ErrBlocked ELSE e.message

\* line 84 rejects
ScreenDenied(k) ==
  /\ pc[k] = "awaitScreen"
  /\ \E e \in DisplayErrors : StartFailed(k, DisplayFailure(e))

\* lines 95-225: getDisplayMedia resolves; the channel is requested
ScreenGranted(k) ==
  /\ pc[k] = "awaitScreen"
  /\ screenLive' = screenLive \cup {k}
  /\ screenStreamRef' = k
  /\ chan' = [chan EXCEPT ![k] = "opening"]
  /\ sessionPromiseRef' = k
  /\ videoSrc' = IF session.isScreenSharing THEN k ELSE videoSrc
  /\ pc' = [pc EXCEPT ![k] = "done"]
  /\ last' = Did("connect", k, FALSE, session)
  /\ UNCHANGED <<session, inputAudioCtxRef, outputAudioCtxRef, micStreamRef,
                 frameIntervalRef, audioSourcesRef, stoppedSrc, micLive, timers, nStarts>>
  /\ UNCHANGED <<processors, encoding, queued, sent, nChunks>>
  /\ UNCHANGED messageVars

\* ------------------------------------------------------------ stop requests
\* The stop button is shown while the session is active.
StopRequest ==
  /\ session.isActive
  /\ handleStopSession("stop", 0, session, screenLive)
  /\ UNCHANGED <<inputAudioCtxRef, outputAudioCtxRef, sessionPromiseRef, pc, chan, nStarts>>
  /\ UNCHANGED <<processors, encoding, queued, sent, nChunks>>
  /\ UNCHANGED messageVars

\* lines 101-103: the video track of screen stream k ends outside the program
VideoTrackEnded(k) ==
  /\ k \in screenLive
  /\ handleStopSession("onended", k, session, screenLive \ {k})
  /\ UNCHANGED <<inputAudioCtxRef, outputAudioCtxRef, sessionPromiseRef, pc, chan, nStarts>>
  /\ UNCHANGED <<processors, encoding, queued, sent, nChunks>>
  /\ UNCHANGED messageVars

\* ------------------------------------------------------- channel callbacks
\* sessionPromiseRef.current?.then(s => s.sendRealtimeInput(...)): the callback
\* runs once the promise of the channel is fulfilled, which is when the channel
\* has opened; it never runs for a channel that failed to open, and a channel
\* that has closed discards what it is given.
WaitingFor(k) == SelectSeq(queued, LAMBDA c : c.to = k)
NotWaitingFor(k) == SelectSeq(queued, LAMBDA c : c.to # k)

\* the chunks `chunks` are handed to their channel while the session state is s
Handed(chunks, s) ==
  [i \in 1..Len(chunks) |-> [chunks[i] EXCEPT !.status = s.status]]

ConnectedSession(s) ==
  [s EXCEPT !.status = "connected", !.isActive = TRUE, !.isScreenSharing = TRUE]

\* lines 121-166
onopen(k) ==
  /\ chan[k] = "opening"
  /\ chan' = [chan EXCEPT ![k] = "open"]
  /\ session' = ConnectedSession(session)
  /\ processors' = processors \cup {k}
  /\ frameIntervalRef' = k
  /\ timers' = timers \cup {k}
  /\ sent' = sent \o Handed(WaitingFor(k), ConnectedSession(session))
  /\ queued' = NotWaitingFor(k)
  /\ last' = Did("onopen", k, FALSE, ConnectedSession(session))
  /\ UNCHANGED <<inputAudioCtxRef, outputAudioCtxRef, micStreamRef, screenStreamRef,
                 sessionPromiseRef, audioSourcesRef, stoppedSrc, pc, micLive,
                 screenLive, nStarts>>
  /\ UNCHANGED <<videoSrc, encoding, nChunks>>
  /\ UNCHANGED messageVars

ErrorSession(s) == [s EXCEPT !.status = "error", !.error = ErrConnection]

\* lines 213-217
onerror(k) ==
  /\ chan[k] \in {"opening", "open"}
  /\ chan' = [chan EXCEPT ![k] = "closed"]
  /\ handleStopSession("onerror", k, ErrorSession(session), screenLive)
  /\ queued' = NotWaitingFor(k)
  /\ UNCHANGED <<inputAudioCtxRef, outputAudioCtxRef, sessionPromiseRef, pc, nStarts>>
  /\ UNCHANGED <<processors, encoding, sent, nChunks>>
  /\ UNCHANGED messageVars

\* lines 218-221
onclose(k) ==
  /\ chan[k] \in {"opening", "open"}
  /\ chan' = [chan EXCEPT ![k] = "closed"]
  /\ handleStopSession("onclose", k, session, screenLive)
  /\ queued' = NotWaitingFor(k)
  /\ UNCHANGED <<inputAudioCtxRef, outputAudioCtxRef, sessionPromiseRef, pc, nStarts>>
  /\ UNCHANGED <<processors, encoding, sent, nChunks>>
  /\ UNCHANGED messageVars

\* ---------------------------------------------------------------- onmessage
\* the cursor is set to the clock
ScheduleTimeIsClock(cursor, now) == now

\* the cursor is left as it is
ScheduleTimeKeepsCursor(cursor, now) == cursor

\* line 171
ScheduleTime(cursor, now) == Max(cursor, now)

\* line 204: prev.slice(-10) keeps this many items
KeepItems == 10

\* prev.slice(-11): one item too many is kept
LastItemsOffByOne(log) == SubSeq(log, Max(1, Len(log) - KeepItems), Len(log))

\* prev.slice(-10)
LastItems(log) == SubSeq(log, Max(1, Len(log) - KeepItems + 1), Len(log))

\* lines 195-200
Accumulate(a, m) ==
  [input |-> a.input \o m.input, output |-> a.output \o m.output]

\* the same for the record of where the text came from: message id adds to an
\* accumulator if it carries a delta for it
AccumulateFrom(f, m, id) ==
  [input |-> f.input \o (IF m.input # "" THEN <<id>> ELSE <<>>),
   output |-> f.output \o (IF m.output # "" THEN <<id>> ELSE <<>>)]

\* lines 203-208: the updaters handed to setTranscriptions by the handler of
\* message id of channel k, in order
Updaters(a, k, id) ==
  (IF a.input # "" THEN <<[type |-> "user", ch |-> k, by |-> id]>> ELSE <<>>)
  \o (IF a.output # "" THEN <<[type |-> "model", ch |-> k, by |-> id]>> ELSE <<>>)

\* what an updater reads when it runs: the closure's variable as it is then
UpdaterText(u, accNow) ==
  IF u.type = "user" THEN accNow[u.ch].input ELSE accNow[u.ch].output

\* one updater of lines 204 / 207, run on prev = log. seq numbers the items in
\* the order they are appended (the order of their Date.now() timestamps); by
\* and from record the message whose handler made the item and the messages
\* its text came from.
RunUpdater(log, u, accNow, fromNow, n) ==
  Append(LastItems(log),
         [type |-> u.type, text |-> UpdaterText(u, accNow), seq |-> n + 1,
          by |-> u.by, from |-> UpdaterText(u, fromNow)])

RECURSIVE RunUpdaters(_, _, _, _, _)
RunUpdaters(log, q, accNow, fromNow, n) ==
  IF q = <<>> THEN log
  ELSE RunUpdaters(RunUpdater(log, Head(q), accNow, fromNow, n), Tail(q),
                   accNow, fromNow, n + 1)

\* lines 187-211: the handler from the interruption on, for message id (m) of
\* channel k, with the handles and the cursor the audio part has left
AfterAudio(k, m, id, sources, cursor) ==
  /\ IF m.interrupted
       THEN /\ stoppedSrc' = stoppedSrc \cup Ids(sources)
            /\ audioSourcesRef' = {}
            /\ nextStartTimeRef' = 0
       ELSE /\ UNCHANGED stoppedSrc
            /\ audioSourcesRef' = sources
            /\ nextStartTimeRef' = cursor
  /\ LET a == Accumulate(acc[k], m)
         f == AccumulateFrom(accFrom[k], m, id)
         ups == Updaters(a, k, id)
     IN IF m.turnComplete
          THEN /\ acc' = [acc EXCEPT ![k] = EmptyAcc]
               /\ accFrom' = [accFrom EXCEPT ![k] = EmptyFrom]
               /\ IF batched
                    THEN /\ updQ' = updQ \o ups
                         /\ UNCHANGED <<transcriptions, nCommitted>>
                    ELSE /\ transcriptions' =
                              RunUpdaters(transcriptions, ups, [acc EXCEPT ![k] = a],
                                          [accFrom EXCEPT ![k] = f], nCommitted)
                         /\ nCommitted' = nCommitted + Len(ups)
                         /\ UNCHANGED updQ
          ELSE /\ acc' = [acc EXCEPT ![k] = a]
               /\ accFrom' = [accFrom EXCEPT ![k] = f]
               /\ UNCHANGED <<transcriptions, nCommitted, updQ>>

\* lines 167-172: message m arrives on channel k; with audio the handler
\* suspends in await decodeAudioData
onmessage(k, m) ==
  /\ chan[k] = "open"
  /\ arrivals' = Append(arrivals, [ch |-> k, m |-> m, at |-> clock])
  /\ IF m.audio /\ outputAudioCtxRef # 0
       THEN /\ nextStartTimeRef' = ScheduleTime(nextStartTimeRef, clock)
            /\ decoding' = decoding \cup {[id |-> nMsg + 1, ch |-> k, m |-> m]}
            /\ last' = DidMessage("await", nMsg + 1, k, m)
            /\ UNCHANGED <<audioSourcesRef, stoppedSrc, preCursor, acc, accFrom,
                           transcriptions, updQ, nCommitted>>
       ELSE /\ AfterAudio(k, m, nMsg + 1, audioSourcesRef, nextStartTimeRef)
            /\ preCursor' = IF m.interrupted THEN Max(preCursor, nextStartTimeRef)
                                              ELSE preCursor
            /\ last' = DidMessage("onmessage", nMsg + 1, k, m)
            /\ UNCHANGED decoding
  /\ UNCHANGED <<clock, batched, started, endedSrc>>
  /\ UNCHANGED lifecycleVars

\* the playback clock as line 171 has read it last (0: never)
LastAudioAt ==
  LET audio == {t \in 1..nMsg : arrivals[t].m.audio}
  IN IF audio = {} THEN 0
     ELSE arrivals[CHOOSE t \in audio : \A u \in audio : u <= t].at

\* the latest arrival among the interrupted events whose handler has run lines
\* 188-192 (0: none): a handler does so on arrival unless its message has audio
LastInterruption ==
  LET handled == {t \in 1..nMsg : arrivals[t].m.interrupted /\ t \notin Ids(decoding)}
  IN IF handled = {} THEN 0 ELSE CHOOSE t \in handled : \A u \in handled : u <= t

\* decodeAudioData of ./utils/audioUtils: the decodes that can resolve now. The
\* handler is suspended until its decode resolves; other events are handled and
\* the playback clock advances meanwhile, and several decodes resolve in any
\* order.
Resolvable == decoding

\* lines 178-211: decodeAudioData resolves with a buffer of duration dur and the
\* handler suspended for message d runs to its end
decoded(d, dur) ==
  /\ d \in Resolvable
  /\ decoding' = decoding \ {d}
  /\ started' = Append(started, [id |-> d.id, when |-> nextStartTimeRef, at |-> clock,
                                 dur |-> dur, seen |-> LastAudioAt,
                                 cut |-> LastInterruption,
                                 preCursor |-> preCursor])
  /\ preCursor' = IF d.m.interrupted THEN nextStartTimeRef + dur ELSE -1
  /\ AfterAudio(d.ch, d.m, d.id,
                audioSourcesRef \cup
                  {[id |-> d.id, endsAt |-> Max(nextStartTimeRef, clock) + dur]},
                nextStartTimeRef + dur)
  /\ last' = DidMessage("onmessage", d.id, d.ch, d.m)
  /\ UNCHANGED <<clock, batched, arrivals, endedSrc>>
  /\ UNCHANGED lifecycleVars

\* line 184: the buffer of handle h has played to its end
SourceEnded(h) ==
  /\ h \in audioSourcesRef
  /\ clock >= h.endsAt
  /\ audioSourcesRef' = audioSourcesRef \ {h}
  /\ endedSrc' = endedSrc \cup {h.id}
  /\ last' = Did("sourceEnded", h.id, FALSE, session)
  /\ UNCHANGED <<stoppedSrc, clock, nextStartTimeRef, acc, transcriptions, updQ,
                 batched, decoding, arrivals, started, preCursor, accFrom, nCommitted>>
  /\ UNCHANGED lifecycleVars

\* React renders: the queued updaters run, in order
Render ==
  /\ updQ # <<>>
  /\ transcriptions' = RunUpdaters(transcriptions, updQ, acc, accFrom, nCommitted)
  /\ nCommitted' = nCommitted + Len(updQ)
  /\ updQ' = <<>>
  /\ last' = Did("render", 0, FALSE, session)
  /\ UNCHANGED <<audioSourcesRef, stoppedSrc, clock, nextStartTimeRef, acc, batched,
                 decoding, arrivals, started, endedSrc, preCursor, accFrom>>
  /\ UNCHANGED lifecycleVars

\* the playback clock advances
Tick ==
  /\ clock < MaxClock
  /\ clock' = clock + 1
  /\ UNCHANGED <<audioSourcesRef, stoppedSrc, nextStartTimeRef, acc, transcriptions,
                 updQ, batched, decoding, arrivals, started, endedSrc, preCursor,
                 accFrom, nCommitted, last>>
  /\ UNCHANGED lifecycleVars

\* ------------------------------------------------------------ media chunks
\* a MediaChunk made by the pipeline or timer of call `from`; live: its source
\* (the microphone track, the stream shown by the <video>) was live when it was
\* captured
Chunk(kind, id, from, live) ==
  [kind |-> kind, id |-> id, from |-> from, to |-> sessionPromiseRef,
   ready |-> chan[sessionPromiseRef] = "open", live |-> live,
   status |-> session.status]

\* lines 132-134 and 155-159:
\* sessionPromiseRef.current?.then(s => s.sendRealtimeInput({media}))
Send(chunk) ==
  IF sessionPromiseRef = Null THEN UNCHANGED <<queued, sent>>
  ELSE IF chan[sessionPromiseRef] = "opening"
    THEN queued' = Append(queued, chunk) /\ UNCHANGED sent
  ELSE IF chan[sessionPromiseRef] = "open"
    THEN sent' = Append(sent, chunk) /\ UNCHANGED queued
  ELSE UNCHANGED <<queued, sent>>

\* lines 129-135: the scriptProcessor of call k gets a block of 4096 frames. It
\* is never disconnected, and a node connected to the destination of a running
\* context gets its blocks whether or not its input is live.
onaudioprocess(k) ==
  /\ k \in processors
  /\ nChunks < MaxChunks
  /\ nChunks' = nChunks + 1
  /\ Send(Chunk("audio", nChunks + 1, k, k \in micLive))
  /\ last' = Did("onaudioprocess", k, FALSE, session)
  /\ UNCHANGED <<session, inputAudioCtxRef, outputAudioCtxRef, micStreamRef,
                 screenStreamRef, sessionPromiseRef, frameIntervalRef, audioSourcesRef,
                 stoppedSrc, pc, micLive, screenLive, chan, timers, nStarts,
                 processors, videoSrc, encoding>>
  /\ UNCHANGED messageVars

\* lines 141-150: the timer of call k fires; videoRef.current is the <video>,
\* which is rendered while isScreenSharing (line 268); the canvas is always there
FrameTick(k) ==
  /\ k \in timers
  /\ nChunks < MaxChunks
  /\ session.isScreenSharing /\ sessionPromiseRef # Null
  /\ nChunks' = nChunks + 1
  /\ encoding' = encoding \cup
                   {[id |-> nChunks + 1, from |-> k,
                     live |-> videoSrc # Null /\ videoSrc \in screenLive,
                     open |-> chan[sessionPromiseRef] = "open"]}
  /\ last' = Did("frameTick", k, FALSE, session)
  /\ UNCHANGED <<session, inputAudioCtxRef, outputAudioCtxRef, micStreamRef,
                 screenStreamRef, sessionPromiseRef, frameIntervalRef, audioSourcesRef,
                 stoppedSrc, pc, micLive, screenLive, chan, timers, nStarts,
                 processors, videoSrc, queued, sent>>
  /\ UNCHANGED messageVars

\* lines 150-163: the frame f is encoded (toBlob, then reader.onloadend)
FrameEncoded(f) ==
  /\ f \in encoding
  /\ encoding' = encoding \ {f}
  /\ Send([Chunk("image", f.id, f.from, f.live) EXCEPT !.ready = f.open])
  /\ last' = Did("frameEncoded", f.from, FALSE, session)
  /\ UNCHANGED <<session, inputAudioCtxRef, outputAudioCtxRef, micStreamRef,
                 screenStreamRef, sessionPromiseRef, frameIntervalRef, audioSourcesRef,
                 stoppedSrc, pc, micLive, screenLive, chan, timers, nStarts,
                 processors, videoSrc, nChunks>>
  /\ UNCHANGED messageVars

\* ----------------------------------------------------------- messages drawn
AudioOnly == [NoMsg EXCEPT !.audio = TRUE]

PlaybackMsgs ==
  {[NoMsg EXCEPT !.audio = a, !.interrupted = i] : a, i \in BOOLEAN} \ {NoMsg}

Deltas == {"", "hel", "lo"}

\* a message carries at most one transcription
TranscriptMsgs ==
  {[audio |-> a, interrupted |-> FALSE, input |-> i, output |-> o, turnComplete |-> t] :
     a, t \in BOOLEAN, i \in Deltas, o \in {"", "ok"}}
  \ ({NoMsg} \cup {m \in [audio : BOOLEAN, interrupted : {FALSE}, input : Deltas,
                           output : {"", "ok"}, turnComplete : BOOLEAN] :
                      m.input # "" /\ m.output # ""})

TurnMsgs ==
  {[NoMsg EXCEPT !.input = i, !.output = o, !.turnComplete = TRUE] :
     i \in {"", "a"}, o \in {"", "b"}}

\* ----------------------------------------------------------- specifications
Lifecycle ==
  \/ StartRequest
  \/ \E k \in Calls : MicGranted(k)
  \/ \E k \in Calls : MicDenied(k)
  \/ \E k \in Calls : ScreenGranted(k)
  \/ \E k \in Calls : ScreenDenied(k)
  \/ StopRequest
  \/ \E k \in Calls : VideoTrackEnded(k)
  \/ \E k \in Calls : onopen(k)
  \/ \E k \in Calls : onerror(k)
  \/ \E k \in Calls : onclose(k)

\* the whole session lifecycle, with audio messages
Next ==
  \/ Lifecycle
  \/ \E k \in Calls : nMsg < MaxAudio /\ onmessage(k, AudioOnly)
  \/ \E d \in decoding : decoded(d, 1)

Spec == Init /\ [][Next]_vars

\* one session is started and opened
OneSession ==
  \/ nStarts = 0 /\ StartRequest
  \/ MicGranted(1)
  \/ ScreenGranted(1)
  \/ onopen(1)

\* one session: audio and interruptions against the playback clock
NextPlayback ==
  \/ OneSession
  \/ \E m \in PlaybackMsgs : nMsg < MaxMsgs /\ onmessage(1, m)
  \/ \E d \in decoding, dur \in Durations : decoded(d, dur)
  \/ \E h \in audioSourcesRef : SourceEnded(h)
  \/ Tick

SpecPlayback == Init /\ [][NextPlayback]_vars

\* one session: the start times of a few buffers against the playback clock
NextSchedule ==
  \/ OneSession
  \/ \E m \in PlaybackMsgs : nMsg < MaxBuffers /\ onmessage(1, m)
  \/ \E d \in decoding, dur \in Durations : decoded(d, dur)
  \/ Tick

SpecSchedule == Init /\ [][NextSchedule]_vars

\* one session: transcript deltas and turns, with audio
NextTranscript ==
  \/ OneSession
  \/ \E m \in TranscriptMsgs : nMsg < MaxMsgs /\ onmessage(1, m)
  \/ \E d \in decoding : decoded(d, 1)
  \/ Render
  \/ StopRequest
  \/ onclose(1)

SpecTranscript == Init /\ [][NextTranscript]_vars

\* one session: many turns
NextLog ==
  \/ OneSession
  \/ \E m \in TurnMsgs : nMsg < MaxTurns /\ onmessage(1, m)
  \/ Render

SpecLog == Init /\ [][NextLog]_vars

\* sessions stopped and started again: audio and interruptions on their channels
NextRestart ==
  \/ StartRequest
  \/ \E k \in Calls : MicGranted(k)
  \/ \E k \in Calls : ScreenGranted(k)
  \/ \E k \in Calls : onopen(k)
  \/ StopRequest
  \/ \E k \in Calls, m \in PlaybackMsgs : nMsg < MaxMsgs /\ onmessage(k, m)
  \/ \E d \in decoding : decoded(d, 1)

SpecRestart == Init /\ [][NextRestart]_vars

\* the session lifecycle with the capture pipeline and the frame sampler
NextMedia ==
  \/ StartRequest
  \/ \E k \in Calls : MicGranted(k)
  \/ \E k \in Calls : ScreenGranted(k)
  \/ StopRequest
  \/ \E k \in Calls : VideoTrackEnded(k)
  \/ \E k \in Calls : onopen(k)
  \/ \E k \in Calls : onclose(k)
  \/ \E k \in Calls : onaudioprocess(k)
  \/ \E k \in Calls : FrameTick(k)
  \/ \E f \in encoding : FrameEncoded(f)

SpecMedia == Init /\ [][NextMedia]_vars

\* ------------------------------------------------------------------ claims
OpenChannels == {k \in Calls : chan[k] \in {"opening", "open"}}

\* every track stopped, no frame timer running, no playback handle held
TornDown ==
  /\ micLive = {}
  /\ screenLive = {}
  /\ timers = {}
  /\ audioSourcesRef = {}

StopHandlers == {"stop", "onended", "onclose"}

\* C1: in every reachable state at most one Session Channel is open or being
\* opened; a stop followed by a new start does not leave the previous channel
\* open beside the new one.
C1_AtMostOneChannel == Cardinality(OpenChannels) <= 1

\* C2: when onerror has run the status is 'error' with a non-empty message and
\* everything is torn down, and the status stays 'error' until the next start
\* request.
C2_ErrorStateAfterOnError ==
  [][/\ last'.op = "onerror" =>
          /\ session'.status = "error"
          /\ session'.error \notin {NoError, ""}
          /\ TornDown'
     /\ (session.status = "error" /\ last'.op # "start") => session'.status = "error"]_vars

\* C3: when a start request fails while acquiring the microphone or the screen,
\* the status is 'idle' again with the error set, the streams the request had
\* acquired are stopped, and the request has opened no channel.
C3_FailedStartReturnsToIdle ==
  last.op = "startFailed" =>
    /\ session.status = "idle"
    /\ session.error \notin {NoError, ""}
    /\ last.id \notin micLive \cup screenLive
    /\ chan[last.id] = "none"

\* C4: after onclose, a stop request or the end of the video track, from any
\* state, the status is 'idle', all tracks are stopped, no frame timer runs and
\* ActiveSources is empty.
C4_StopTearsEverythingDown ==
  last.op \in StopHandlers => session.status = "idle" /\ TornDown

\* C5: a stop invoked while the session is idle performs no track-stop,
\* timer-clear or source-stop and leaves the session state unchanged.
C5_StopWhenIdleDoesNothing ==
  (last.op \in StopHandlers /\ last.preStatus = "idle") =>
    ~last.released /\ ~last.changed

\* the messages of channel k that end a turn
TurnEnds(k) == {t \in 1..nMsg : arrivals[t].ch = k /\ arrivals[t].m.turnComplete}

\* the last message of channel k before message t that ended a turn (0: none)
PrevEnd(k, t) ==
  LET before == {u \in TurnEnds(k) : u < t}
  IN IF before = {} THEN 0 ELSE CHOOSE u \in before : \A v \in before : v <= u

DeltaOf(m, role) == IF role = "user" THEN m.input ELSE m.output

\* the deltas of `role` that arrived on channel k as messages lo..hi, concatenated
\* in the order of arrival
RECURSIVE DeltasText(_, _, _, _)
DeltasText(k, role, lo, hi) ==
  IF lo > hi THEN ""
  ELSE (IF arrivals[lo].ch = k THEN DeltaOf(arrivals[lo].m, role) ELSE "")
       \o DeltasText(k, role, lo + 1, hi)

\* what the turn that message t ends has received for `role`
TurnText(t, role) ==
  DeltasText(arrivals[t].ch, role, PrevEnd(arrivals[t].ch, t) + 1, t)

ItemsOf(t, role) ==
  {i \in DOMAIN transcriptions :
     transcriptions[i].by = t /\ transcriptions[i].type = role}

Quiet == decoding = {} /\ updQ = <<>>

\* C6: on every turnComplete, each role whose accumulator is non-empty gets
\* exactly one item, whose text is the deltas of that role received since the
\* previous turnComplete, concatenated in arrival order; a role with an empty
\* accumulator gets none.
C6_TurnCommitsItsDeltas ==
  /\ \A i \in DOMAIN transcriptions :
       transcriptions[i].text = TurnText(transcriptions[i].by, transcriptions[i].type)
  /\ Quiet =>
       \A k \in Calls : \A t \in TurnEnds(k) : \A role \in {"user", "model"} :
         Cardinality(ItemsOf(t, role)) = IF TurnText(t, role) # "" THEN 1 ELSE 0

Min(a, b) == IF a <= b THEN a ELSE b

\* C7: the log never holds more than 11 items; after N items were committed its
\* length is min(N, 11) and it holds the most recent ones in commit order (the
\* oldest are the ones evicted).
C7_LogKeepsLast11 ==
  /\ Len(transcriptions) = Min(nCommitted, 11)
  /\ \A i \in DOMAIN transcriptions :
       transcriptions[i].seq = nCommitted - Len(transcriptions) + i

\* an item has been evicted
C7_Witness == nCommitted > 11 /\ Len(transcriptions) = 11

Emptied(a, b) ==
  \/ a.input # "" /\ b.input = ""
  \/ a.output # "" /\ b.output = ""

\* both accumulators are empty when the handler of a turnComplete has run
ClearedAfterTurn ==
  (last.op = "onmessage" /\ last.turnComplete) => acc[last.ch] = EmptyAcc

\* no item holds text that arrived before an earlier turnComplete than its own,
\* and no text is in two items
ItemsKeepToTheirTurn ==
  \A i \in DOMAIN transcriptions :
    LET it == transcriptions[i]
    IN /\ \A j \in 1..Len(it.from) :
            ~ \E t \in TurnEnds(arrivals[it.by].ch) : it.from[j] <= t /\ t < it.by
       /\ \A i2 \in DOMAIN transcriptions :
            (i2 # i /\ transcriptions[i2].type = it.type) =>
              \A j \in 1..Len(it.from) : \A j2 \in 1..Len(transcriptions[i2].from) :
                it.from[j] # transcriptions[i2].from[j2]

\* C8: right after every turnComplete both accumulators are empty, no other
\* event empties them, and so the text received in one turn never shows in the
\* item of a later turn and is never committed twice.
C8_AccumulatorsClearedPerTurn ==
  [][/\ ClearedAfterTurn'
     /\ \A k \in Calls :
          Emptied(acc[k], acc'[k]) =>
            last'.op = "onmessage" /\ last'.turnComplete /\ last'.ch = k
     /\ ItemsKeepToTheirTurn']_vars

\* C9: after an interrupted event was handled ActiveSources is empty, every
\* handle scheduled before is stopped (or has played to its end) and the cursor
\* is 0; the next buffer scheduled starts at or after the playback clock and
\* not at the cursor the interruption has reset.
C9_InterruptionResetsPlayback ==
  /\ (last.op = "onmessage" /\ last.interrupted) =>
       /\ audioSourcesRef = {}
       /\ nextStartTimeRef = 0
       /\ \A i \in DOMAIN started : started[i].id \in stoppedSrc \cup endedSrc
  /\ \A i \in DOMAIN started :
       started[i].preCursor # -1 =>
         /\ started[i].when >= started[i].at
         /\ started[i].preCursor > started[i].at => started[i].when # started[i].preCursor

\* C10: every buffer is started at max(PlaybackCursor, playback clock) as they
\* are when it is scheduled (line 181 passes the cursor, so: the cursor is not
\* behind the clock then); no buffer is started earlier than the clock.
C10_NeverScheduledInThePast ==
  \A i \in DOMAIN started :
    started[i].when = Max(started[i].when, started[i].at)

\* no interrupted event has arrived
NoInterruption == \A t \in 1..nMsg : ~arrivals[t].m.interrupted

\* two buffers started one after the other
Successive(i) == NoInterruption /\ i + 1 \in DOMAIN started

\* C11 as stated: absent interruption the start times do not decrease and each
\* start time equals the previous start time plus the previous buffer's duration.
C11_StartIsPreviousEnd ==
  \A i \in DOMAIN started :
    Successive(i) => started[i + 1].when = started[i].when + started[i].dur

\* C11: absent interruption the start times handed to source.start do not
\* decrease, and each equals the larger of the previous start time plus the
\* previous buffer's duration and the playback clock as read when an audioDelta
\* last arrived (line 171 raises the cursor to the clock).
C11_StartIsPreviousEndOrClock ==
  \A i \in DOMAIN started :
    Successive(i) =>
      /\ started[i + 1].when >= started[i].when
      /\ started[i + 1].when =
           Max(started[i].when + started[i].dur, started[i + 1].seen)

\* a buffer started later than where the previous one ends: at the clock
C11_Witness ==
  \E i \in DOMAIN started :
    /\ Successive(i)
    /\ started[i + 1].when > started[i].when + started[i].dur
    /\ started[i + 1].when = started[i + 1].seen

\* C12: the cursor (nextStartTimeRef) decreases in no step, stop and restart of
\* a session included, but the step that has handled an interrupted event,
\* which leaves it 0.
C12_CursorNeverDecreases ==
  [][nextStartTimeRef' < nextStartTimeRef =>
       /\ last'.op = "onmessage" /\ last'.interrupted
       /\ nextStartTimeRef' = 0]_vars

\* a session started after a stop has set the cursor, and an interruption on
\* its channel has reset it
C12_Witness ==
  /\ last.op = "onmessage" /\ last.interrupted /\ last.ch > 1
  /\ preCursor > 0
  /\ nextStartTimeRef = 0

\* C13: onopen sets the status 'connected' and starts the capture pipeline and
\* the frame sampler; the status becomes 'connected' only from 'connecting' and
\* only by the onopen of the channel of the most recent start request.
C13_ConnectedOnlyFromConnecting ==
  [][/\ last'.op = "onopen" =>
          /\ session'.status = "connected"
          /\ last'.id \in processors'
          /\ last'.id \in timers'
     /\ (session'.status = "connected" /\ session.status # "connected") =>
          /\ session.status = "connecting"
          /\ last'.op = "onopen"
          /\ last'.id = nStarts]_vars

\* C14: the events of a channel are handled in the order they arrived: buffers
\* are started in the order their audioDelta events arrived, and no buffer is
\* started after an interrupted event that arrived later than its audioDelta
\* has been handled.
C14_HandledInArrivalOrder ==
  /\ \A i, j \in DOMAIN started : i < j => started[i].id < started[j].id
  /\ \A i \in DOMAIN started : started[i].cut < started[i].id

\* C15: an audio block captured while the channel it is meant for has not
\* opened is dropped: it is not kept waiting, and it is not handed to the
\* channel once that has opened.
C15_NotReadyMeansDropped ==
  /\ \A i \in DOMAIN queued : queued[i].kind # "audio"
  /\ \A i \in DOMAIN sent : sent[i].kind = "audio" => sent[i].ready

\* C16: a tick of the frame sampler makes an image chunk only if the <video>
\* shows a live stream and the channel is open at that tick; a frame for which
\* no channel is open is not kept waiting, and no image chunk is handed to a
\* channel after the session was stopped.
C16_FramesOnlyWhenLiveAndOpen ==
  /\ \A f \in encoding : f.live /\ f.open
  /\ \A i \in DOMAIN queued : queued[i].kind # "image"
  /\ \A i \in DOMAIN sent :
       sent[i].kind = "image" =>
         sent[i].live /\ sent[i].ready /\ sent[i].status = "connected"

\* C17: each of the two audio contexts is created once, by the first start
\* request; later start requests reuse it and no stop, error or failed start
\* closes or replaces it.
C17_ContextsCreatedOnce ==
  /\ inputAudioCtxRef = (IF nStarts = 0 THEN 0 ELSE 1)
  /\ outputAudioCtxRef = (IF nStarts = 0 THEN 0 ELSE 1)

\* a session started again after an earlier one was torn down
C17_Witness ==
  /\ nStarts > 1
  /\ last.op = "start"
  /\ inputAudioCtxRef = 1 /\ outputAudioCtxRef = 1
  /\ \E k \in Calls : pc[k] = "failed" \/ chan[k] = "closed"

TeardownHandlers == {"stop", "onended", "onclose", "onerror", "startFailed"}

\* no frame timer runs and no playback handle is held
NothingRuns == timers = {} /\ audioSourcesRef = {}

\* C18: once a teardown has run, no frame timer runs and ActiveSources is empty
\* until the next start request (the status is 'idle' or 'error' from a
\* teardown until then), whatever arrives late; and never more than one frame
\* timer runs.
C18_TeardownIsLasting ==
  [][/\ last'.op \in TeardownHandlers => NothingRuns'
     /\ (session.status \in {"idle", "error"} /\ NothingRuns /\ last'.op # "start")
          => NothingRuns'
     /\ Cardinality(timers') <= 1]_vars

\* C19: a chunk made by the capture pipeline or the frame sampler of a session
\* is handed only to the channel that session has opened, and only while the
\* session is connected: none after a stop, and none from the pipeline of an
\* earlier session to the channel of a later one (so that one captured block
\* gives one chunk on the new channel).
C19_ChunksGoToOwnChannel ==
  \A i \in DOMAIN sent :
    sent[i].from = sent[i].to /\ sent[i].status = "connected"

\* C20: isActive and isScreenSharing are true exactly when the status is
\* 'connected'.
C20_FlagsAgreeWithStatus ==
  /\ session.isActive = (session.status = "connected")
  /\ session.isScreenSharing = (session.status = "connected")

=============================================================================
